---- MODULE Spec2Model ----
(***************************************************************************)
(* Model of app.py of streamlit-drawable-canvas-demo: one Streamlit        *)
(* session re-running main() on every interaction.  Each run selects a     *)
(* page, runs the prologue of main (session_state defaults) and then the   *)
(* page routine found in the dispatch table PAGES.  The scratch directory  *)
(* tmp/, the wall clock and the values held by the canvas components are   *)
(* the environment of the script.                                          *)
(*                                                                         *)
(* Strings that the code inspects character by character (UUIDs, file      *)
(* names) are sequences of one-character strings.  An optional value       *)
(* (Python None or a value) is a sequence of length 0 or 1.                *)
(***************************************************************************)
EXTENDS Integers, Sequences, FiniteSets, TLC

VARIABLES
    session_state,  \* st.session_state: key -> value, keys possibly absent
    files,          \* the file system: path -> [mtime, content]
    clock,          \* time.time()
    json_data,      \* value of the canvas with key "color_annotation_app"
    canvas_fill,    \* fill_color that canvas was last rendered with
    df,             \* the table color_annotation_app last built
    page,           \* page selected in the sidebar in the last run
    ran,            \* page routines executed by the last run of main
    color,          \* "Annotation color: " input of the last annotation run
    label,          \* "Label" input of the last annotation run
    mode,           \* drawing mode of the last annotation run
    seen_json,      \* json_data as read by the last annotation run
    image_data,     \* image_data the png_export canvas returned last
    deleted,        \* paths unlinked by the sweep of the last png_export
    written,        \* paths this session has saved a PNG to
    pre_ctl         \* color_to_label at entry of the last page routine

vars == <<session_state, files, clock, json_data, canvas_fill, df, page, ran,
          color, label, mode, seen_json, image_data, deleted, written, pre_ctl>>

----------------------------------------------------------------------------
(* Bounds of the model *)

MaxObjects == 2         \* objects on the annotation canvas
MaxClock == 7202        \* the clock stops advancing here

(* Inputs *)

TickSteps == {1800, 1801}
Colors == {"#EA1010", "#10EA10"}
Labels == {"Default", "car"}
Images == {"img1", "img2"}
NoImage == "None"
NaN == "NaN"            \* pandas' missing value
None == <<>>
Some(x) == <<x>>

----------------------------------------------------------------------------
(* Python dict and string helpers *)

DictSet(d, k, v) == [x \in (DOMAIN d) \cup {k} |-> IF x = k THEN v ELSE d[x]]

EmptyDict == [x \in {} |-> NaN]

Digits == {"0", "1", "2", "3", "4", "5", "6", "7", "8", "9"}

IsNotDigit(c) == c \notin Digits

IsNotHyphen(c) == c # "-"

\* s.replace("-", "")
RemoveHyphens(s) == SelectSeq(s, IsNotHyphen)

\* re.sub("\d+", "", s): every maximal run of digits is replaced by ""
RemoveDigits(s) == SelectSeq(s, IsNotDigit)

EndsWith(s, suffix) ==
    /\ Len(s) >= Len(suffix)
    /\ SubSeq(s, Len(s) - Len(suffix) + 1, Len(s)) = suffix

StartsWith(s, prefix) ==
    /\ Len(s) >= Len(prefix)
    /\ SubSeq(s, 1, Len(prefix)) = prefix

----------------------------------------------------------------------------
(* uuid.uuid4(): five hyphen-separated groups of hex digits, the third     *)
(* starting with the version digit 4 and the fourth with a variant digit   *)
(* 8, 9, a or b.  The model shortens the groups and samples the digits.    *)

HexRun == {<<"7">>, <<"c">>}
VariantDigits == {"9", "b"}

Uuid4Strings ==
    { h1 \o <<"-", "1", "-", "4", "2", "-", v, "3", "-">> \o h5 :
        h1 \in HexRun, v \in VariantDigits, h5 \in HexRun }

\* re.sub("\d+", "", str(uuid.uuid4()).replace("-", ""))
MakeButtonId(u) == RemoveDigits(RemoveHyphens(u))

----------------------------------------------------------------------------
(* The scratch directory *)

TmpDir == <<"t", "m", "p", "/">>
PngSuffix == <<".", "p", "n", "g">>
N_HOURS_BEFORE_DELETION == 1
SecondsPerHour == 3600

FilePath(button_id) == TmpDir \o button_id \o PngSuffix

Basename(path) == SubSeq(path, Len(TmpDir) + 1, Len(path))

\* Path("tmp/").glob("*.png")
GlobPng(fs) ==
    { f \in DOMAIN fs : StartsWith(f, TmpDir) /\ EndsWith(Basename(f), PngSuffix) }

\* the sweep with an inclusive threshold
Expired_Inclusive(fs, now) ==
    { f \in GlobPng(fs) : fs[f].mtime <= now - N_HOURS_BEFORE_DELETION * SecondsPerHour }

\* the files the sweep unlinks
Expired(fs, now) ==
    { f \in GlobPng(fs) : fs[f].mtime < now - N_HOURS_BEFORE_DELETION * SecondsPerHour }

Unlink(fs, gone) == [f \in (DOMAIN fs) \ gone |-> fs[f]]

\* im.save(file_path, "PNG")
EncodePng(img) == <<"PNG", img>>

\* an export that does not overwrite an existing file
SavePng_KeepExisting(fs, path, img, now) ==
    IF path \in DOMAIN fs THEN fs
    ELSE DictSet(fs, path, [mtime |-> now, content |-> EncodePng(img)])

SavePng(fs, path, img, now) ==
    DictSet(fs, path, [mtime |-> now, content |-> EncodePng(img)])

(* the session starts one retention window after the epoch of the model;  *)
(* files found in tmp/ at that time                                        *)
StartClock == N_HOURS_BEFORE_DELETION * SecondsPerHour

OldPng == TmpDir \o <<"o">> \o PngSuffix
OldTxt == TmpDir \o <<"o", ".", "t", "x", "t">>
InitMtimes == {0, 1}

InitFiles ==
    { fs \in UNION { [D -> [mtime : InitMtimes, content : {<<"PNG", "old">>}]] :
                        D \in SUBSET {OldPng, OldTxt} } :
        OldTxt \in DOMAIN fs => fs[OldTxt].mtime = 0 }

----------------------------------------------------------------------------
(* main *)

PAGES ==
    [p \in {"About", "Basic example", "Get center coords of circles",
            "Color-based image annotation", "Download Base64 encoded PNG",
            "Compute the length of drawn arcs"} |->
        CASE p = "About" -> "about"
          [] p = "Basic example" -> "full_app"
          [] p = "Get center coords of circles" -> "center_circle_app"
          [] p = "Color-based image annotation" -> "color_annotation_app"
          [] p = "Download Base64 encoded PNG" -> "png_export"
          [] p = "Compute the length of drawn arcs" -> "compute_arc_length"]

\* a prologue that resets the mapping on every run
MainPrologue_Reset(ss) ==
    DictSet(IF "button_id" \in DOMAIN ss THEN ss ELSE DictSet(ss, "button_id", <<>>),
            "color_to_label", EmptyDict)

\* lines 19-22: defaults of the two session keys
MainPrologue(ss) ==
    LET s1 == IF "button_id" \in DOMAIN ss THEN ss
              ELSE DictSet(ss, "button_id", <<>>)
    IN  IF "color_to_label" \in DOMAIN s1 THEN s1
        ELSE DictSet(s1, "color_to_label", EmptyDict)

AnnVars == <<json_data, canvas_fill, df, color, label, mode, seen_json>>
PngVars == <<files, image_data, deleted, written>>

\* a page routine that touches neither the session state nor the files
Stateless(ss, name) ==
    /\ session_state' = ss
    /\ ran' = <<name>>
    /\ pre_ctl' = ss["color_to_label"]
    /\ UNCHANGED <<AnnVars, PngVars, clock>>

\* an About page that forgets the session's button id
about_ClearsButtonId(ss) == Stateless(DictSet(ss, "button_id", <<>>), "about")

about(ss) == Stateless(ss, "about")

full_app(ss) == Stateless(ss, "full_app")

center_circle_app(ss) == Stateless(ss, "center_circle_app")

compute_arc_length(ss) == Stateless(ss, "compute_arc_length")

\* the label of the first row given to every row
MapFill_FirstRow(objects, ctl) ==
    [i \in 1..Len(objects) |->
        [fill |-> objects[i].fill,
         label |-> IF objects[1].fill \in DOMAIN ctl THEN ctl[objects[1].fill]
                   ELSE NaN]]

\* df["fill"].map(color_to_label)
MapFill(objects, ctl) ==
    [i \in 1..Len(objects) |->
        [fill |-> objects[i].fill,
         label |-> IF objects[i].fill \in DOMAIN ctl THEN ctl[objects[i].fill]
                   ELSE NaN]]

\* color_picker(...) + "77"
LabelColor(c) == c \o "77"

\* the guard without the early return on an empty table
HasObjects_NoLenCheck(jd) == jd # None

\* lines 202-205: there is json data and the table has at least one row
HasObjects(jd) == jd # None /\ Len(jd[1]) # 0

\* setdefault instead of assignment: the first label of a color wins
Record_KeepFirst(ctl, label_color, l) ==
    IF label_color \in DOMAIN ctl THEN ctl ELSE DictSet(ctl, label_color, l)

\* st.session_state["color_to_label"][label_color] = label
Record(ctl, label_color, l) == DictSet(ctl, label_color, l)

color_annotation_app(ss, in) ==
    \E c \in in.colors, l \in in.labels, m \in in.modes :
        LET label_color == LabelColor(c)
            ctl == ss["color_to_label"]
            recorded == Record(ctl, label_color, l)
        IN  /\ color' = c
            /\ label' = l
            /\ mode' = m
            /\ canvas_fill' = Some(label_color)
            /\ seen_json' = json_data
            /\ ran' = <<"color_annotation_app">>
            /\ pre_ctl' = ctl
            /\ IF HasObjects(json_data)
               THEN /\ session_state' = DictSet(ss, "color_to_label", recorded)
                    /\ df' = Some(MapFill(json_data[1], recorded))
               ELSE /\ session_state' = ss
                    /\ df' = None
            /\ UNCHANGED <<json_data, PngVars, clock>>

png_export(ss, in) ==
    \E img \in in.images, u \in in.uuids :
        LET now == clock
            gone == Expired(files, now)
            swept == Unlink(files, gone)
            button_id == IF ss["button_id"] = <<>> THEN MakeButtonId(u)
                         ELSE ss["button_id"]
            file_path == FilePath(button_id)
        IN  /\ deleted' = gone
            /\ session_state' = DictSet(ss, "button_id", button_id)
            /\ image_data' = img
            /\ IF img # NoImage
               THEN /\ files' = SavePng(swept, file_path, img, now)
                    /\ written' = written \cup {file_path}
               ELSE /\ files' = swept
                    /\ written' = written
            /\ ran' = <<"png_export">>
            /\ pre_ctl' = ss["color_to_label"]
            /\ UNCHANGED <<AnnVars, clock>>

\* PAGES[page]()
Dispatch(routine, ss, in) ==
    \/ routine = "about" /\ about(ss)
    \/ routine = "full_app" /\ full_app(ss)
    \/ routine = "center_circle_app" /\ center_circle_app(ss)
    \/ routine = "color_annotation_app" /\ color_annotation_app(ss, in)
    \/ routine = "png_export" /\ png_export(ss, in)
    \/ routine = "compute_arc_length" /\ compute_arc_length(ss)

\* one run of the script; in = the values the widgets, the canvases and
\* uuid4 may deliver in this run
main(in) ==
    \E p \in DOMAIN PAGES :
        /\ page' = p
        /\ Dispatch(PAGES[p], MainPrologue(session_state), in)

----------------------------------------------------------------------------
(* The environment: the user at the annotation canvas, and time *)

Objects == IF json_data = None THEN <<>> ELSE json_data[1]

\* a rectangle is drawn with the fill the canvas was rendered with
DrawRect ==
    /\ canvas_fill # None
    /\ mode = "rect"
    /\ Len(Objects) < MaxObjects
    /\ json_data' = Some(Append(Objects, [fill |-> canvas_fill[1]]))
    /\ UNCHANGED <<session_state, files, clock, canvas_fill, df, page, ran,
                   color, label, mode, seen_json, image_data, deleted,
                   written, pre_ctl>>

\* the toolbar's undo removes the last object
Undo ==
    /\ Len(Objects) > 0
    /\ json_data' = Some(SubSeq(Objects, 1, Len(Objects) - 1))
    /\ UNCHANGED <<session_state, files, clock, canvas_fill, df, page, ran,
                   color, label, mode, seen_json, image_data, deleted,
                   written, pre_ctl>>

Tick ==
    \E d \in TickSteps :
        /\ clock + d <= MaxClock
        /\ clock' = clock + d
        /\ UNCHANGED <<session_state, files, json_data, canvas_fill, df, page,
                       ran, color, label, mode, seen_json, image_data, deleted,
                       written, pre_ctl>>

----------------------------------------------------------------------------

InitWith(fss) ==
    /\ session_state = [k \in {} |-> <<>>]
    /\ files \in fss
    /\ clock = StartClock
    /\ json_data = None
    /\ canvas_fill = None
    /\ df = None
    /\ page = "About"
    /\ ran = <<>>
    /\ color = "#EA1010"
    /\ label = "Default"
    /\ mode = "rect"
    /\ seen_json = None
    /\ image_data = NoImage
    /\ deleted = {}
    /\ written = {}
    /\ pre_ctl = EmptyDict

AllInputs ==
    [colors |-> Colors, labels |-> Labels, modes |-> {"rect", "transform"},
     images |-> Images \cup {NoImage}, uuids |-> Uuid4Strings]

(* The annotation session: the user annotates and visits every page, the   *)
(* scratch directory starts empty and the export canvas sends one image.   *)
AnnInputs ==
    [AllInputs EXCEPT !.images = {NoImage, "img1"},
                      !.uuids = {<<"c", "-", "1", "-", "4", "2", "-", "b", "3", "-", "7">>}]

InitAnn == InitWith({[f \in {} |-> NaN]})

NextAnn == main(AnnInputs) \/ DrawRect \/ Undo

SpecAnn == InitAnn /\ [][NextAnn]_vars

(* The export session: the user exports and visits every page while time   *)
(* passes, and leaves the annotation widgets at their defaults.            *)
PngInputs ==
    [AllInputs EXCEPT !.colors = {"#EA1010"}, !.labels = {"Default"},
                      !.modes = {"rect"}]

InitPng == InitWith(InitFiles)

NextPng == main(PngInputs) \/ Tick

SpecPng == InitPng /\ [][NextPng]_vars

----------------------------------------------------------------------------
(* Properties *)

Routines == {PAGES[p] : p \in DOMAIN PAGES}

\* a step that is a run of main dispatching to routine r (the environment
\* steps leave ran alone and change the clock or the canvas value)
PageRun(r) == ran' = <<r>> /\ clock' = clock /\ json_data' = json_data

\* st.session_state["color_to_label"] / ["button_id"], empty while absent
Ctl(ss) == IF "color_to_label" \in DOMAIN ss THEN ss["color_to_label"] ELSE EmptyDict

Bid(ss) == IF "button_id" \in DOMAIN ss THEN ss["button_id"] ELSE <<>>

\* C1: the sweep of png_export unlinks a file of tmp/ iff its name matches
\* *.png and its mtime is strictly below now - 3600; every other file is
\* still there after the sweep, unchanged unless the run exports to it.
C1_SweepDeletesExactlyExpired ==
    [][PageRun("png_export") =>
        LET old == { f \in DOMAIN files :
                        /\ EndsWith(f, <<".", "p", "n", "g">>)
                        /\ files[f].mtime < clock - 3600 }
            target == <<"t", "m", "p", "/">> \o Bid(session_state') \o <<".", "p", "n", "g">>
        IN  /\ deleted' = old
            /\ \A f \in old : f \notin DOMAIN files' \/ f = target
            /\ \A f \in (DOMAIN files) \ old :
                    /\ f \in DOMAIN files'
                    /\ files'[f] = files[f] \/ f = target]_vars

\* a sweep deleted an expired png, kept a png whose mtime equals the
\* threshold, and kept an expired file that is not a png
C1_Witness ==
    /\ ran = <<"png_export">>
    /\ deleted # {}
    /\ \E f \in DOMAIN files :
            EndsWith(f, PngSuffix) /\ files[f].mtime = clock - 3600
    /\ \E f \in DOMAIN files :
            ~EndsWith(f, PngSuffix) /\ files[f].mtime < clock - 3600

\* C2: setting the label of a color that already has an entry overwrites
\* it: the keys are the same as before, the entry of the color holds the
\* new label and the entries of the other colors are unchanged.
C2_SecondSetOverwrites ==
    [][(/\ PageRun("color_annotation_app")
        /\ json_data # None /\ Len(json_data[1]) > 0
        /\ (color' \o "77") \in DOMAIN Ctl(session_state)) =>
            LET old == Ctl(session_state)
                new == Ctl(session_state')
                C == color' \o "77"
            IN  /\ DOMAIN new = DOMAIN old
                /\ Cardinality(DOMAIN new) = Cardinality(DOMAIN old)
                /\ new[C] = label'
                /\ \A k \in (DOMAIN old) \ {C} : new[k] = old[k]]_vars

\* the selected color had another label before the run, and another color
\* has an entry too
C2_Witness ==
    /\ ran = <<"color_annotation_app">>
    /\ df # None
    /\ (color \o "77") \in DOMAIN pre_ctl
    /\ pre_ctl[color \o "77"] # label
    /\ Ctl(session_state)[color \o "77"] = label
    /\ Cardinality(DOMAIN pre_ctl) = 2

\* C3: after a run of color_annotation_app that read a non-empty object
\* list, the entry of selected color + "77" is the label input, and row i
\* of the table carries the fill of object i and color_to_label[fill], or
\* no label when the fill is not a key.
C3_AnnotatedByFill ==
    (ran = <<"color_annotation_app">> /\ seen_json # None /\ Len(seen_json[1]) > 0) =>
        LET ctl == Ctl(session_state)
            objects == seen_json[1]
        IN  /\ (color \o "77") \in DOMAIN ctl
            /\ ctl[color \o "77"] = label
            /\ df # None
            /\ Len(df[1]) = Len(objects)
            /\ \A i \in 1..Len(objects) :
                    /\ df[1][i].fill = objects[i].fill
                    /\ objects[i].fill \in DOMAIN ctl => df[1][i].label = ctl[objects[i].fill]
                    /\ objects[i].fill \notin DOMAIN ctl => df[1][i].label = NaN
                    /\ objects[i].fill = color \o "77" => df[1][i].label = label

\* two objects, one of the selected color and one of a color mapped earlier
\* to another label
C3_Witness ==
    /\ ran = <<"color_annotation_app">>
    /\ df # None
    /\ Len(df[1]) = 2
    /\ \E i, j \in 1..2 :
            /\ df[1][i].fill = color \o "77"
            /\ df[1][i].label = label
            /\ df[1][j].fill # color \o "77"
            /\ df[1][j].label \notin {label, NaN}

\* C5: a run of png_export that got image data leaves tmp/<button_id>.png
\* holding the PNG of that image, written in this run; a run that got no
\* image data creates or rewrites no file.
C5_ExportAfterSweep ==
    [][PageRun("png_export") =>
        LET target == <<"t", "m", "p", "/">> \o Bid(session_state') \o <<".", "p", "n", "g">>
        IN  IF image_data' # "None"
            THEN /\ target \in DOMAIN files'
                 /\ files'[target].content = <<"PNG", image_data'>>
                 /\ files'[target].mtime = clock
            ELSE \A f \in DOMAIN files' :
                    f \in DOMAIN files /\ files'[f] = files[f]]_vars

\* the sweep unlinked the session's expired scratch file and the export of
\* the same run wrote it again
C5_Witness ==
    /\ ran = <<"png_export">>
    /\ image_data # NoImage
    /\ FilePath(Bid(session_state)) \in deleted
    /\ FilePath(Bid(session_state)) \in DOMAIN files

\* C6: once color_to_label exists it is never removed and never loses a
\* key; main creates it, empty, only when it is absent.
C6_MappingLivesForSession ==
    [][/\ "color_to_label" \in DOMAIN session_state =>
            /\ "color_to_label" \in DOMAIN session_state'
            /\ DOMAIN Ctl(session_state) \subseteq DOMAIN Ctl(session_state')
       /\ ("color_to_label" \notin DOMAIN session_state
            /\ "color_to_label" \in DOMAIN session_state') =>
                Ctl(session_state') = EmptyDict]_vars

\* two colors were recorded and the user is on another page
C6_Witness ==
    /\ ran = <<"compute_arc_length">>
    /\ Cardinality(DOMAIN Ctl(session_state)) = 2
    /\ pre_ctl = Ctl(session_state)

\* C7: a run of main executes the one routine PAGES maps the selected page
\* to; a routine other than color_annotation_app leaves color_to_label as
\* it is, a routine other than png_export leaves button_id and the files
\* as they are.
C7_PagesIndependent ==
    [][/\ ran' = <<>> \/ ran' = <<PAGES[page']>>
       /\ \A r \in Routines : PageRun(r) =>
            /\ r # "color_annotation_app" =>
                    Ctl(session_state') = Ctl(session_state)
            /\ r # "png_export" =>
                    /\ Bid(session_state') = Bid(session_state)
                    /\ files' = files]_vars

\* a page that is neither the annotation nor the export ran while a color
\* was mapped, button_id was set and the scratch file existed
C7_Witness ==
    /\ ran = <<"about">>
    /\ page = "About"
    /\ DOMAIN Ctl(session_state) # {}
    /\ Bid(session_state) # <<>>
    /\ FilePath(Bid(session_state)) \in DOMAIN files

\* C8 as stated: a run of color_annotation_app that reads the object list
\* the previous run read, or an empty list, leaves color_to_label as it is.
C8_OnlyOnNewRectangle ==
    [][(/\ PageRun("color_annotation_app")
        /\ \/ ran = <<"color_annotation_app">> /\ json_data = seen_json
           \/ json_data = None
           \/ json_data # None /\ Len(json_data[1]) = 0) =>
            Ctl(session_state') = Ctl(session_state)]_vars

\* C8 amended: a run that reads no object list or an empty one leaves
\* color_to_label as it is; a run that reads a non-empty list, new or not,
\* sets the entry of the selected color to the label input and leaves the
\* other entries as they are.
C8_RecordedOnNonEmptyList ==
    [][PageRun("color_annotation_app") =>
        LET old == Ctl(session_state)
            new == Ctl(session_state')
            C == color' \o "77"
        IN  IF json_data = None \/ Len(json_data[1]) = 0
            THEN new = old
            ELSE /\ DOMAIN new = (DOMAIN old) \cup {C}
                 /\ new[C] = label'
                 /\ \A k \in (DOMAIN old) \ {C} : new[k] = old[k]]_vars

\* the run read an empty list (the objects were removed) while a color was
\* mapped
C8_Witness ==
    /\ ran = <<"color_annotation_app">>
    /\ seen_json = Some(<<>>)
    /\ DOMAIN pre_ctl # {}
    /\ Ctl(session_state) = pre_ctl

\* C9 as stated: a non-empty button_id never changes, and the session
\* saves to at most one scratch file name.
C9_OneScratchName ==
    [][/\ Bid(session_state) # <<>> => Bid(session_state') = Bid(session_state)
       /\ Cardinality(written') <= 1]_vars

\* C10 as stated: after a run of png_export button_id is non-empty and
\* holds no decimal digit.
C10_ButtonIdNonEmpty ==
    ran = <<"png_export">> =>
        /\ Bid(session_state) # <<>>
        /\ \A i \in 1..Len(Bid(session_state)) : Bid(session_state)[i] \notin Digits

====
